---- MODULE Spec2Model ----
(***************************************************************************)
(* A model of the leekduck/pokebase crawler:                               *)
(*   - clean_img, variant classification and parse of the detail scraper   *)
(*   - _fetch_html of the detail scraper (the Fetch Engine)                *)
(*   - _detect_total_pages and _fetch_html of the listing scraper          *)
(*   - main of scrap_pokemon_main.py (the Run Orchestrator)                *)
(* Python strings are modelled as sequences of one-character strings, so   *)
(* that split, strip, lower and startswith are computed, not assumed.      *)
(***************************************************************************)
EXTENDS Integers, Sequences, FiniteSets, TLC

VARIABLES
    \* ---- clean_img applied once and twice
    cin, cout1, cout2, cpc,
    \* ---- _detect_total_pages
    bar, pages, dpc,
    \* ---- PokemonDetailScraper.parse
    dom, detail, ppc,
    \* ---- PokemonDetailScraper._fetch_html
    fpc, retries, attempt, html, flog, fresult, snapshot, sessions, retrySleeps,
    \* ---- main
    catalog, files, pc, idx, success, failed, politeSleeps, fetchCalls, outcome,
    run, firstRun, filesAtRunStart,
    \* ---- PokebaseScraper._fetch_html
    lpc, lattempt, lretries, all_pages_html, max_page, lpage, lresult, lsnapshot,
    llog, lsleeps, lsessions, page_parts

cleanVars == <<cin, cout1, cout2, cpc>>
pagesVars == <<bar, pages, dpc>>
parseVars == <<dom, detail, ppc>>
fetchVars == <<fpc, retries, attempt, html, flog, fresult, snapshot, sessions,
               retrySleeps>>
mainVars  == <<catalog, files, pc, idx, success, failed, politeSleeps, fetchCalls,
               outcome, run, firstRun, filesAtRunStart>>
listVars  == <<lpc, lattempt, lretries, all_pages_html, max_page, lpage, lresult,
               lsnapshot, llog, lsleeps, lsessions, page_parts>>
vars == <<cleanVars, pagesVars, parseVars, fetchVars, mainVars, listVars>>

(***************************************************************************)
(* Bounds of the model                                                     *)
(***************************************************************************)
MaxUrlLen  == 3     \* longest image URL given to clean_img
MaxFrags   == 3     \* most text nodes inside the pagination control
MaxRetries == 3     \* largest `retries` setting explored for the fetch engines
MaxItems   == 2     \* longest catalog given to main

(***************************************************************************)
(* Python strings and None                                                 *)
(***************************************************************************)
NoneStr == <<"None">>       \* Python None where a str is expected

IsSpace(c) == c \in {" ", "\n", "\t"}

RECURSIVE LStrip(_)
LStrip(s) == IF s # <<>> /\ IsSpace(Head(s)) THEN LStrip(Tail(s)) ELSE s

RECURSIVE RStripWS(_)
RStripWS(s) ==
    IF s # <<>> /\ IsSpace(s[Len(s)]) THEN RStripWS(SubSeq(s, 1, Len(s) - 1)) ELSE s

\* str.strip()
Strip(s) == RStripWS(LStrip(s))

\* str.rstrip(ch)
RECURSIVE RStrip(_, _)
RStrip(s, ch) ==
    IF s # <<>> /\ s[Len(s)] = ch THEN RStrip(SubSeq(s, 1, Len(s) - 1), ch) ELSE s

\* index of the first occurrence of ch in s, 0 when there is none
RECURSIVE FindFrom(_, _, _)
FindFrom(s, ch, i) ==
    IF i > Len(s) THEN 0 ELSE IF s[i] = ch THEN i ELSE FindFrom(s, ch, i + 1)

\* str.split(ch): the list of segments between occurrences of ch
RECURSIVE SplitOn(_, _)
SplitOn(s, ch) ==
    LET k == FindFrom(s, ch, 1)
    IN  IF k = 0 THEN <<s>>
        ELSE <<SubSeq(s, 1, k - 1)>> \o SplitOn(SubSeq(s, k + 1, Len(s)), ch)

\* str.split(ch, 1)[0]
SplitFirst(s, ch) ==
    LET k == FindFrom(s, ch, 1)
    IN  IF k = 0 THEN s ELSE SubSeq(s, 1, k - 1)

\* str.split(): the whitespace-separated tokens
RECURSIVE SplitWS(_)
SplitWS(s) ==
    LET t == LStrip(s)
    IN  IF t = <<>> THEN <<>>
        ELSE LET sp == { i \in 1..Len(t) : IsSpace(t[i]) }
                 e  == IF sp = {} THEN Len(t) + 1
                       ELSE CHOOSE i \in sp : \A j \in sp : i <= j
             IN  <<SubSeq(t, 1, e - 1)>> \o SplitWS(SubSeq(t, e, Len(t)))

LowerChar(c) ==
    CASE c = "M" -> "m" [] c = "E" -> "e" [] c = "G" -> "g" [] c = "A" -> "a"
      [] c = "S" -> "s" [] c = "D" -> "d" [] c = "X" -> "x" [] c = "P" -> "p"
      [] OTHER -> c

\* str.lower()
Lower(s) == [i \in 1..Len(s) |-> LowerChar(s[i])]

\* str.startswith(p)
StartsWith(s, p) == Len(s) >= Len(p) /\ SubSeq(s, 1, Len(p)) = p

\* sep.join(list)
RECURSIVE Join(_, _)
Join(list, sep) ==
    IF list = <<>> THEN <<>>
    ELSE IF Len(list) = 1 THEN list[1]
    ELSE list[1] \o sep \o Join(Tail(list), sep)

(***************************************************************************)
(* clean_img                                                               *)
(***************************************************************************)
clean_img(url) ==
    IF url = NoneStr \/ url = <<>> THEN NoneStr ELSE SplitFirst(url, "?")

UrlChars == {"a", "?", "."}

RECURSIVE StringsUpTo(_, _)
StringsUpTo(chars, n) ==
    IF n = 0 THEN { <<>> }
    ELSE LET shorter == StringsUpTo(chars, n - 1)
         IN  shorter \cup { Append(s, c) : s \in shorter, c \in chars }

CleanInputs == { NoneStr } \cup StringsUpTo(UrlChars, MaxUrlLen)

CleanIdle == cin = NoneStr /\ cout1 = NoneStr /\ cout2 = NoneStr /\ cpc = "idle"

CleanInit == cin \in CleanInputs /\ cout1 = NoneStr /\ cout2 = NoneStr /\ cpc = "in"

CleanOnce ==
    /\ cpc = "in"
    /\ cout1' = clean_img(cin)
    /\ cpc' = "once"
    /\ UNCHANGED <<cin, cout2>>

CleanTwice ==
    /\ cpc = "once"
    /\ cout2' = clean_img(cout1)
    /\ cpc' = "twice"
    /\ UNCHANGED <<cin, cout1>>

(***************************************************************************)
(* _detect_total_pages                                                     *)
(***************************************************************************)
IsDigit(c) == c \in {"0", "1", "2", "3", "4", "5", "6", "7", "8", "9"}

DigitVal(c) ==
    CASE c = "0" -> 0 [] c = "1" -> 1 [] c = "2" -> 2 [] c = "3" -> 3 [] c = "4" -> 4
      [] c = "5" -> 5 [] c = "6" -> 6 [] c = "7" -> 7 [] c = "8" -> 8 [] c = "9" -> 9

RECURSIVE DigitsVal(_)
DigitsVal(s) ==
    IF s = <<>> THEN 0 ELSE 10 * DigitsVal(SubSeq(s, 1, Len(s) - 1)) + DigitVal(s[Len(s)])

AllDigits(s) == s # <<>> /\ \A i \in 1..Len(s) : IsDigit(s[i])

\* int(tok): an optional sign and decimal digits; anything else is a ValueError
IntOk(tok) ==
    IF tok # <<>> /\ tok[1] \in {"-", "+"} THEN AllDigits(Tail(tok)) ELSE AllDigits(tok)

IntVal(tok) ==
    IF tok[1] = "-" THEN 0 - DigitsVal(Tail(tok))
    ELSE IF tok[1] = "+" THEN DigitsVal(Tail(tok))
    ELSE DigitsVal(tok)

\* Tag.get_text(" ", strip=True): the stripped, non-empty text nodes joined by " "
RECURSIVE StrippedNonEmpty(_)
StrippedNonEmpty(nodes) ==
    IF nodes = <<>> THEN <<>>
    ELSE LET s == Strip(Head(nodes))
         IN  (IF s = <<>> THEN <<>> ELSE <<s>>) \o StrippedNonEmpty(Tail(nodes))

GetTextSp(nodes) == Join(StrippedNonEmpty(nodes), <<" ">>)

\* list.index(x) for an x that is in the list
IndexOf(list, x) == CHOOSE i \in 1..Len(list) : list[i] = x /\ \A j \in 1..(i - 1) : list[j] # x

OfTok == <<"o", "f">>

\* result of a Python call: a value, or an exception leaving the function
Returned(v) == [raised |-> FALSE, value |-> v]
Raised      == [raised |-> TRUE, value |-> 0]

\* a plausible slip: the token after "of" is converted outside the try block
DetectNoTry(b) ==
    IF ~b.present THEN Returned(1)
    ELSE LET parts == SplitWS(GetTextSp(b.nodes))
         IN  IF \E i \in 1..Len(parts) : parts[i] = OfTok
             THEN LET i == IndexOf(parts, OfTok)
                  IN  IF i + 1 <= Len(parts) /\ IntOk(parts[i + 1])
                      THEN Returned(IntVal(parts[i + 1]))
                      ELSE Raised
             ELSE Returned(1)

\* b: the element selected by "div.flex.items-center.gap-1" (present or not)
\* and its text nodes
DetectTotalPages(b) ==
    IF ~b.present THEN Returned(1)
    ELSE LET parts == SplitWS(GetTextSp(b.nodes))
         IN  IF \E i \in 1..Len(parts) : parts[i] = OfTok
             THEN LET i == IndexOf(parts, OfTok)
                  IN  \* try: return int(parts[idx + 1])   except: pass
                      IF i + 1 <= Len(parts) /\ IntOk(parts[i + 1])
                      THEN Returned(IntVal(parts[i + 1]))
                      ELSE Returned(1)
             ELSE Returned(1)

Frags ==
    { <<"P", "a", "g", "e">>, <<"1">>, OfTok, <<"1", "2">>, <<"a", "b", "c">>,
      <<"-", "3">>, <<" ", "o", "f", " ", "7", " ">>, <<"o", "f", "f">>, <<" ">> }

RECURSIVE SeqsUpTo(_, _)
SeqsUpTo(S, n) ==
    IF n = 0 THEN { <<>> }
    ELSE LET shorter == SeqsUpTo(S, n - 1)
         IN  shorter \cup { Append(s, x) : s \in shorter, x \in S }

NoBar == [present |-> FALSE, nodes |-> <<>>]

Bars == { NoBar } \cup { [present |-> TRUE, nodes |-> n] : n \in SeqsUpTo(Frags, MaxFrags) }

PagesIdle == bar = NoBar /\ pages = Returned(0) /\ dpc = "idle"

PagesInit == bar \in Bars /\ pages = Returned(0) /\ dpc = "in"

Detect ==
    /\ dpc = "in"
    /\ pages' = DetectTotalPages(bar)
    /\ dpc' = "out"
    /\ UNCHANGED bar

(***************************************************************************)
(* PokemonDetailScraper.parse                                              *)
(* A document is modelled by what the selectors of parse find in it: each  *)
(* selected element is present or not and carries its text or attributes.  *)
(***************************************************************************)
MaxAnchors == 2     \* most anchors inside one moves container
MaxEls     == 1     \* most elements in the sprite, type, matchup and evolution groups

\* Tag.get_text(strip=True) of an element holding one text node
GetText(text) == Strip(text)

\* sub in s
Contains(s, sub) ==
    \E i \in 1..(Len(s) - Len(sub) + 1) : SubSeq(s, i, i + Len(sub) - 1) = sub

\* str.replace(ch, "")
RECURSIVE RemoveChar(_, _)
RemoveChar(s, ch) ==
    IF s = <<>> THEN <<>>
    ELSE (IF Head(s) = ch THEN <<>> ELSE <<Head(s)>>) \o RemoveChar(Tail(s), ch)

P_mega       == <<"m", "e", "g", "a", " ">>
P_gigantamax == <<"g", "i", "g", "a", "n", "t", "a", "m", "a", "x", " ">>
P_dynamax    == <<"d", "y", "n", "a", "m", "a", "x", " ">>
P_shadow     == <<"s", "h", "a", "d", "o", "w", " ">>

\* a plausible slip: the name is matched without lower-casing it
VariantCaseSensitive(name) ==
    IF StartsWith(name, P_mega) THEN "mega"
    ELSE IF StartsWith(name, P_gigantamax) THEN "gmax"
    ELSE IF StartsWith(name, P_dynamax) THEN "dmax"
    ELSE IF StartsWith(name, P_shadow) THEN "shadow"
    ELSE "normal"

\* the if/elif chain of parse on nl = name.lower()
Variant(name) ==
    LET nl == Lower(name)
    IN  IF StartsWith(nl, P_mega) THEN "mega"
        ELSE IF StartsWith(nl, P_gigantamax) THEN "gmax"
        ELSE IF StartsWith(nl, P_dynamax) THEN "dmax"
        ELSE IF StartsWith(nl, P_shadow) THEN "shadow"
        ELSE "normal"

S_shiny   == <<"s", "h", "i", "n", "y">>
S_go      == <<"g", "o">>
S_shuffle == <<"s", "h", "u", "f", "f", "l", "e">>

\* the loop over sprite_imgs: later images overwrite earlier ones
RECURSIVE Sprites(_, _)
Sprites(acc, imgs) ==
    IF imgs = <<>> THEN acc
    ELSE LET img == Head(imgs)
             alt == Lower(IF img.alt = NoneStr THEN <<>> ELSE img.alt)
             src == clean_img(img.src)
             nxt == IF Contains(alt, S_shiny) THEN [acc EXCEPT !.go_shiny = src]
                    ELSE IF alt = S_go THEN [acc EXCEPT !.go = src]
                    ELSE IF Contains(alt, S_shuffle) THEN [acc EXCEPT !.shuffle = src]
                    ELSE acc
         IN  Sprites(nxt, Tail(imgs))

\* the anchors with at least two spans, as {type, multiplier}
RECURSIVE Matchups(_)
Matchups(anchors) ==
    IF anchors = <<>> THEN <<>>
    ELSE LET spans == Head(anchors)
         IN  (IF Len(spans) >= 2
              THEN << [type |-> GetText(spans[1]), multiplier |-> GetText(spans[Len(spans)])] >>
              ELSE <<>>) \o Matchups(Tail(anchors))

\* one anchor of a moves container: a.select("button")[-1] is an IndexError
\* when the anchor has no button
MoveRaises(a) == a.buttons = <<>>

MoveEntry(a) ==
    LET nm == IF a.grow # NoneStr THEN a.grow ELSE a.span
    IN  [name   |-> IF nm # NoneStr THEN GetText(nm) ELSE NoneStr,
         damage |-> GetText(a.buttons[Len(a.buttons)])]

\* a moves section: sec.h2 the heading was found, sec.div find_next("div") found
\* a container, sec.anchors its anchors. None.select(...) is an AttributeError.
MovesRaises(sec) ==
    sec.h2 /\ (~sec.div \/ \E i \in 1..Len(sec.anchors) : MoveRaises(sec.anchors[i]))

Moves(sec) ==
    IF ~sec.h2 THEN <<>> ELSE [i \in 1..Len(sec.anchors) |-> MoveEntry(sec.anchors[i])]

DynRaises(sec) == sec.h2 /\ ~sec.div

RECURSIVE DynNames(_)
DynNames(anchors) ==
    IF anchors = <<>> THEN <<>>
    ELSE (IF Head(anchors) # NoneStr THEN <<GetText(Head(anchors))>> ELSE <<>>)
         \o DynNames(Tail(anchors))

DynMoves(sec) == IF ~sec.h2 THEN <<>> ELSE DynNames(sec.anchors)

CpKeys == <<"lvl50", "lvl40", "lvl25", "lvl20", "lvl15">>

ParseRecord(d) ==
    LET name  == IF d.h1.present THEN GetText(d.h1.text) ELSE <<>>
        image == IF d.img.present THEN clean_img(d.img.src) ELSE NoneStr
    IN  [name     |-> name,
         variant  |-> Variant(name),
         dex      |-> IF d.dex.present THEN RemoveChar(GetText(d.dex.text), "#")
                      ELSE NoneStr,
         image    |-> image,
         sprites  |-> Sprites([default |-> image, go |-> NoneStr, go_shiny |-> NoneStr,
                               shuffle |-> NoneStr], d.sprite_imgs),
         types    |-> d.type_icons,
         base_stats |->
             IF Len(d.stats) = 3
             THEN [attack |-> GetText(d.stats[1]), defense |-> GetText(d.stats[2]),
                   stamina |-> GetText(d.stats[3])]
             ELSE [attack |-> NoneStr, defense |-> NoneStr, stamina |-> NoneStr],
         cp       |-> [i \in 1..5 |-> IF i <= Len(d.cp_els) THEN GetText(d.cp_els[i])
                                       ELSE NoneStr],
         weak_to      |-> IF d.weak.present THEN Matchups(d.weak.anchors) ELSE <<>>,
         resistant_to |-> IF d.res.present THEN Matchups(d.res.anchors) ELSE <<>>,
         fast_moves   |-> Moves(d.fast),
         charge_moves |-> Moves(d.charge),
         dynamax_moves  |-> DynMoves(d.dyn),
         evolution_tree |->
             [i \in 1..Len(d.evos) |->
                 [name  |-> IF d.evos[i].nm # NoneStr THEN GetText(d.evos[i].nm)
                            ELSE NoneStr,
                  image |-> IF d.evos[i].img.present THEN clean_img(d.evos[i].img.src)
                            ELSE NoneStr]]]

ParseRaises(d) == MovesRaises(d.fast) \/ MovesRaises(d.charge) \/ DynRaises(d.dyn)

\* parse(soup): the record, or the exception that leaves parse
parse(d) ==
    IF ParseRaises(d) THEN [raised |-> TRUE, value |-> <<>>]
    ELSE [raised |-> FALSE, value |-> <<ParseRecord(d)>>]

(***************************************************************************)
(* Documents given to parse                                                *)
(***************************************************************************)
Absent == [present |-> FALSE, text |-> <<>>]
El(t)  == [present |-> TRUE, text |-> t]

NoImg  == [present |-> FALSE, src |-> NoneStr]
Img(s) == [present |-> TRUE, src |-> s]

NoSection == [h2 |-> FALSE, div |-> FALSE, anchors |-> <<>>]

BaseDom ==
    [h1 |-> Absent, dex |-> Absent, img |-> NoImg, sprite_imgs |-> <<>>,
     type_icons |-> <<>>, stats |-> <<>>, cp_els |-> <<>>,
     weak |-> [present |-> FALSE, anchors |-> <<>>],
     res  |-> [present |-> FALSE, anchors |-> <<>>],
     fast |-> NoSection, charge |-> NoSection, dyn |-> NoSection, evos |-> <<>>]

W_Mega   == <<"M", "e", "g", "a">>
W_MEGA   == <<"M", "E", "G", "A">>
W_mega   == <<"m", "e", "g", "a">>
W_Gmax   == <<"G", "i", "g", "a", "n", "t", "a", "m", "a", "x">>
W_Dmax   == <<"D", "y", "n", "a", "m", "a", "x">>
W_Shadow == <<"S", "h", "a", "d", "o", "w">>
W_SHADOW == <<"S", "H", "A", "D", "O", "W">>
W_X      == <<"X">>

Words == { W_Mega, W_MEGA, W_mega, W_Gmax, W_Dmax, W_Shadow, W_SHADOW, W_X, <<>> }

\* the text of the h1: two words, with or without a space between and around them
H1Texts == { a \o sep \o b \o end : a \in Words, sep \in { <<>>, <<" ">> }, b \in Words,
                                    end \in { <<>>, <<" ">> } }

NameDoms == { BaseDom } \cup { [BaseDom EXCEPT !.h1 = El(t)] : t \in H1Texts }

T_5  == <<"5">>
T_9  == <<"9">>
T_nm == <<"n", "m">>
T_sp == <<" ", "s", "p">>

MoveAnchors ==
    { [grow |-> g, span |-> sp, buttons |-> b] :
        g \in { NoneStr, T_nm }, sp \in { NoneStr, T_sp },
        b \in { <<>>, <<T_5>>, <<T_5, T_9>> } }

MoveSections ==
    { [h2 |-> h, div |-> d, anchors |-> a] :
        h \in BOOLEAN, d \in BOOLEAN, a \in SeqsUpTo(MoveAnchors, MaxAnchors) }

DynSections ==
    { [h2 |-> h, div |-> d, anchors |-> a] :
        h \in BOOLEAN, d \in BOOLEAN, a \in SeqsUpTo({ NoneStr, T_nm }, MaxAnchors) }

\* a container cannot hold anchors when it is not there
WellFormed(sec) == sec.div \/ sec.anchors = <<>>

MoveDoms ==
    { [BaseDom EXCEPT !.fast = f] : f \in { x \in MoveSections : WellFormed(x) } }
    \cup { [BaseDom EXCEPT !.charge = c] : c \in { x \in MoveSections : WellFormed(x) } }
    \cup { [BaseDom EXCEPT !.dyn = y] : y \in { x \in DynSections : WellFormed(x) } }

U_q   == <<"a", "?", "x">>
U_a   == <<"a">>
A_GO  == <<"G", "O">>
A_shy == <<"G", "O", " ", "S", "h", "i", "n", "y">>
A_shf == <<"s", "h", "u", "f", "f", "l", "e">>
T_dex == <<"#", "0", "6">>

SpriteImgs == { [alt |-> a, src |-> u] : a \in { NoneStr, A_GO, A_shy, A_shf, U_a },
                                         u \in { NoneStr, U_q } }

BasicDoms ==
    { [BaseDom EXCEPT !.dex = x, !.img = i, !.type_icons = ty] :
        x  \in { Absent, El(T_dex) },
        i  \in { NoImg, Img(NoneStr), Img(U_q) },
        ty \in SeqsUpTo({ U_a }, MaxEls) }
    \cup { [BaseDom EXCEPT !.img = i, !.sprite_imgs = sp] :
              i \in { NoImg, Img(U_q) }, sp \in SeqsUpTo(SpriteImgs, MaxEls) }
    \cup { [BaseDom EXCEPT !.stats = st, !.cp_els = c] :
              st \in { <<>>, <<T_5, T_9>>, <<T_5, T_9, T_5>>, <<T_5, T_9, T_5, T_9>> },
              c  \in { <<>>, <<T_5, T_9, T_5>>, <<T_5, T_9, T_5, T_9, T_5, T_9>> } }

Spans == { <<>>, <<U_a>>, <<U_a, T_5>>, <<U_a, T_9, T_5>> }

MatchupEls == { [present |-> pr, anchors |-> a] :
                   pr \in BOOLEAN, a \in SeqsUpTo(Spans, MaxEls) }

EvoAnchors == { [img |-> i, nm |-> n] : i \in { NoImg, Img(U_q) }, n \in { NoneStr, T_nm } }

MatchupDoms ==
    { [BaseDom EXCEPT !.weak = w, !.res = r] : w \in MatchupEls, r \in MatchupEls }
    \cup { [BaseDom EXCEPT !.evos = e] : e \in SeqsUpTo(EvoAnchors, MaxEls) }

Doms == NameDoms \cup MoveDoms \cup BasicDoms \cup MatchupDoms

NoDetail == [raised |-> FALSE, value |-> <<>>]

ParseIdle == dom = BaseDom /\ detail = NoDetail /\ ppc = "idle"

ParseInit == dom \in Doms /\ detail = NoDetail /\ ppc = "in"

DoParse ==
    /\ ppc = "in"
    /\ detail' = parse(dom)
    /\ ppc' = "out"
    /\ UNCHANGED dom

(***************************************************************************)
(* PokemonDetailScraper._fetch_html: the Fetch Engine                      *)
(* One action per position of the attempt loop.  A capture is the string   *)
(* page.content() returns: its length and the document it parses to.       *)
(***************************************************************************)
MinHtmlLen == 200

GoodDom == [BaseDom EXCEPT !.h1 = El(W_X), !.dex = El(T_dex)]
BadDom  == [BaseDom EXCEPT !.h1 = El(W_X), !.fast = [h2 |-> TRUE, div |-> FALSE,
                                                     anchors |-> <<>>]]

Captures ==
    { [len |-> 0, dom |-> BaseDom], [len |-> MinHtmlLen - 1, dom |-> BaseDom],
      [len |-> MinHtmlLen, dom |-> GoodDom], [len |-> MinHtmlLen + 1, dom |-> BadDom] }

NoHtml == [len |-> -1, dom |-> BaseDom]
NoDoc  == [ok |-> FALSE, html |-> NoHtml]
Doc(h) == [ok |-> TRUE, html |-> h]

Ev(e, a, l) == [ev |-> e, att |-> a, len |-> l]

\* a plausible slip: only the empty capture is rejected
TooShortEmptyOnly(h) == h.len = 0

\* "if not html or len(html) < 200"
TooShort(h) == h.len = 0 \/ h.len < MinHtmlLen

\* src.utils.save_html(html, path): the file at path holds html afterwards
save_html(h, file) == h

FetchIdle ==
    /\ fpc = "idle" /\ retries = 0 /\ attempt = 0 /\ html = NoHtml /\ flog = <<>>
    /\ fresult = NoDoc /\ snapshot = NoHtml /\ sessions = 0 /\ retrySleeps = 0

FetchInit ==
    /\ fpc = "loop" /\ retries \in 0..MaxRetries /\ attempt = 1 /\ html = NoHtml
    /\ flog = <<>> /\ fresult = NoDoc /\ snapshot = NoHtml /\ sessions = 0
    /\ retrySleeps = 0

\* p.chromium.launch, new_context, new_page
DLaunch ==
    /\ fpc = "loop" /\ attempt <= retries
    /\ sessions' = sessions + 1
    /\ flog' = Append(flog, Ev("launch", attempt, 0))
    /\ fpc' = "page"
    /\ UNCHANGED <<retries, attempt, html, fresult, snapshot, retrySleeps>>

\* sync_playwright() or launch raises: nothing was opened
DLaunchFails ==
    /\ fpc = "loop" /\ attempt <= retries
    /\ flog' = Append(flog, Ev("error", attempt, 0))
    /\ fpc' = "except"
    /\ UNCHANGED <<retries, attempt, html, fresult, snapshot, sessions, retrySleeps>>

\* a plausible slip: the browser is launched outside a with block, and an
\* exception leaves it open
DNavFailsNoClose ==
    /\ fpc = "page"
    /\ flog' = Append(flog, Ev("error", attempt, 0))
    /\ fpc' = "except"
    /\ UNCHANGED <<retries, attempt, html, fresult, snapshot, sessions, retrySleeps>>

\* goto, wait_for_load_state or content raises (navigation error, timeout):
\* leaving the with block stops Playwright and its browser
DNavFails ==
    /\ fpc = "page"
    /\ sessions' = sessions - 1
    /\ flog' = Append(flog, Ev("error", attempt, 0))
    /\ fpc' = "except"
    /\ UNCHANGED <<retries, attempt, html, fresult, snapshot, retrySleeps>>

\* html = page.content(); page.close(); ctx.close(); browser.close()
\* (a timeout of wait_for_selector is caught and changes nothing)
DCapture ==
    /\ fpc = "page"
    /\ \E c \in Captures :
          /\ html' = c
          /\ flog' = Append(flog, Ev("capture", attempt, c.len))
    /\ sessions' = sessions - 1
    /\ fpc' = "check"
    /\ UNCHANGED <<retries, attempt, fresult, snapshot, retrySleeps>>

\* empty or short capture: warning and continue, with no sleep
DShort ==
    /\ fpc = "check" /\ TooShort(html)
    /\ flog' = Append(flog, Ev("short", attempt, html.len))
    /\ attempt' = attempt + 1
    /\ fpc' = "loop"
    /\ UNCHANGED <<retries, html, fresult, snapshot, sessions, retrySleeps>>

\* save_html(html, self.raw_html_path); return BeautifulSoup(html, "lxml")
DReturn ==
    /\ fpc = "check" /\ ~TooShort(html)
    /\ snapshot' = save_html(html, snapshot)
    /\ fresult' = Doc(html)
    /\ flog' = Append(flog, Ev("return", attempt, html.len))
    /\ fpc' = "done"
    /\ UNCHANGED <<retries, attempt, html, sessions, retrySleeps>>

\* save_html raises (the snapshot cannot be written): handled like any exception
DSaveFails ==
    /\ fpc = "check" /\ ~TooShort(html)
    /\ flog' = Append(flog, Ev("error", attempt, html.len))
    /\ fpc' = "except"
    /\ UNCHANGED <<retries, attempt, html, fresult, snapshot, sessions, retrySleeps>>

\* except Exception: logger.error; time.sleep(1)
DExcept ==
    /\ fpc = "except"
    /\ retrySleeps' = retrySleeps + 1
    /\ flog' = Append(flog, Ev("sleep", attempt, 0))
    /\ attempt' = attempt + 1
    /\ fpc' = "loop"
    /\ UNCHANGED <<retries, html, fresult, snapshot, sessions>>

\* the loop is over: "All retries failed", return None
DExhausted ==
    /\ fpc = "loop" /\ attempt > retries
    /\ fresult' = NoDoc
    /\ flog' = Append(flog, Ev("all_failed", attempt, 0))
    /\ fpc' = "done"
    /\ UNCHANGED <<retries, attempt, html, snapshot, sessions, retrySleeps>>

(***************************************************************************)
(* main of scrap_pokemon_main.py: the Run Orchestrator                     *)
(***************************************************************************)
MainRetries == 2

URL_a      == <<"h", "/", "a">>
URL_aSlash == <<"h", "/", "a", "/">>
URL_b      == <<"h", "/", "b">>

\* catalog entries: item.get("url") is None, or a URL
Items == { [url |-> u] : u \in { NoneStr, URL_a, URL_aSlash, URL_b } }

Catalogs == SeqsUpTo(Items, MaxItems)

\* "if not url"
MissingUrl(u) == u = NoneStr \/ u = <<>>

\* a plausible slip: the last segment is taken without removing the trailing slash
SlugNoStrip(u) ==
    LET parts == SplitOn(u, "/") IN parts[Len(parts)]

\* url.rstrip("/").split("/")[-1]
Slug(u) ==
    LET parts == SplitOn(RStrip(u, "/"), "/") IN parts[Len(parts)]

\* the names out_dir can hold for these catalogs
Slugs == { Slug(it.url) : it \in { x \in Items : ~MissingUrl(x.url) } }
         \cup { SlugNoStrip(it.url) : it \in { x \in Items : ~MissingUrl(x.url) } }

NoItem   == [url |-> NoneStr]
NoFile   == [kind |-> "none", list_meta |-> NoItem, detail |-> <<>>]
OldFile  == [kind |-> "old", list_meta |-> NoItem, detail |-> <<>>]
\* open(out_file, "w") created the file and json.dump did not complete
PartFile == [kind |-> "partial", list_meta |-> NoItem, detail |-> <<>>]
Combined(item, det) == [kind |-> "record", list_meta |-> item, detail |-> <<det>>]

\* os.path.exists(out_file)
Exists(fs, slug) == fs[slug].kind # "none"

NoRun == [fetchCalls |-> 0, outcome |-> <<>>]

MainIdle ==
    /\ catalog = <<>> /\ files = [sl \in Slugs |-> NoFile] /\ pc = "idle" /\ idx = 0
    /\ success = 0 /\ failed = 0 /\ politeSleeps = 0 /\ fetchCalls = 0 /\ outcome = <<>>
    /\ run = 0 /\ firstRun = NoRun /\ filesAtRunStart = [sl \in Slugs |-> NoFile]

\* the state at "for idx, item in enumerate(items, start=1)": the catalog is loaded,
\* out_dir exists and may hold artifacts of an earlier run
MainInit ==
    /\ catalog \in Catalogs
    /\ files \in { [sl \in Slugs |-> IF sl \in old THEN OldFile ELSE NoFile] :
                     old \in SUBSET { Slug(URL_a) } }
    /\ filesAtRunStart = files
    /\ pc = "loop" /\ idx = 1 /\ success = 0 /\ failed = 0 /\ politeSleeps = 0
    /\ fetchCalls = 0 /\ outcome = <<>> /\ run = 1 /\ firstRun = NoRun

Item == catalog[idx]

\* the entry is over without reaching time.sleep(0.5): "continue"
Continue(tag) ==
    /\ outcome' = Append(outcome, tag)
    /\ idx' = idx + 1
    /\ pc' = "loop"

\* the scraper of the entry is not used again; its snapshot file stays on disk
ScraperDropped ==
    /\ fpc' = "idle" /\ attempt' = 0 /\ html' = NoHtml /\ flog' = <<>> /\ fresult' = NoDoc
    /\ UNCHANGED <<retries, snapshot, sessions, retrySleeps>>

\* a plausible slip: the entry without URL is skipped without being counted
MMissingUrlUncounted ==
    /\ pc = "loop" /\ idx <= Len(catalog)
    /\ MissingUrl(Item.url)
    /\ Continue("missing")
    /\ UNCHANGED <<catalog, files, success, failed, politeSleeps, fetchCalls, run, firstRun,
                   filesAtRunStart>>
    /\ UNCHANGED fetchVars

\* url = item.get("url"); if not url: warning, failed += 1, continue
MMissingUrl ==
    /\ pc = "loop" /\ idx <= Len(catalog)
    /\ MissingUrl(Item.url)
    /\ failed' = failed + 1
    /\ Continue("missing")
    /\ UNCHANGED <<catalog, files, success, politeSleeps, fetchCalls, run, firstRun,
                   filesAtRunStart>>
    /\ UNCHANGED fetchVars

\* if os.path.exists(out_file): info "Skip", continue
MSkipExisting ==
    /\ pc = "loop" /\ idx <= Len(catalog)
    /\ ~MissingUrl(Item.url)
    /\ Exists(files, Slug(Item.url))
    /\ Continue("skipped")
    /\ UNCHANGED <<catalog, files, success, failed, politeSleeps, fetchCalls, run, firstRun,
                   filesAtRunStart>>
    /\ UNCHANGED fetchVars

\* a plausible slip: the test for an existing artifact is left out
MStartFetchAlways ==
    /\ pc = "loop" /\ idx <= Len(catalog)
    /\ ~MissingUrl(Item.url)
    /\ fetchCalls' = fetchCalls + 1
    /\ pc' = "fetch"
    /\ fpc' = "loop" /\ retries' = MainRetries /\ attempt' = 1 /\ html' = NoHtml
    /\ flog' = <<>> /\ fresult' = NoDoc /\ retrySleeps' = 0
    /\ UNCHANGED <<snapshot, sessions>>
    /\ UNCHANGED <<catalog, files, idx, success, failed, politeSleeps, outcome, run,
                   firstRun, filesAtRunStart>>

\* scraper = PokemonDetailScraper(url, slug, settings); scraper._fetch_html() begins
\* (BaseScraper is not part of the sources at hand: the Fetch Engine is taken to be
\* _fetch_html, as the else branch of line 99 and the design say)
MStartFetch ==
    /\ pc = "loop" /\ idx <= Len(catalog)
    /\ ~MissingUrl(Item.url)
    /\ ~Exists(files, Slug(Item.url))
    /\ fetchCalls' = fetchCalls + 1
    /\ pc' = "fetch"
    /\ fpc' = "loop" /\ retries' = MainRetries /\ attempt' = 1 /\ html' = NoHtml
    /\ flog' = <<>> /\ fresult' = NoDoc /\ retrySleeps' = 0
    /\ UNCHANGED <<snapshot, sessions>>
    /\ UNCHANGED <<catalog, files, idx, success, failed, politeSleeps, outcome, run,
                   firstRun, filesAtRunStart>>

\* if not soup: error "Failed fetch", failed += 1, continue
MFetchFailed ==
    /\ pc = "fetch" /\ fpc = "done" /\ ~fresult.ok
    /\ failed' = failed + 1
    /\ Continue("fetch_failed")
    /\ ScraperDropped
    /\ UNCHANGED <<catalog, files, success, politeSleeps, fetchCalls, run, firstRun,
                   filesAtRunStart>>

\* detail = scraper.parse(soup) raises: except Exception, failed += 1
MParseError ==
    /\ pc = "fetch" /\ fpc = "done" /\ fresult.ok
    /\ parse(fresult.html.dom).raised
    /\ failed' = failed + 1
    /\ outcome' = Append(outcome, "error")
    /\ pc' = "sleep"
    /\ ScraperDropped
    /\ UNCHANGED <<catalog, files, idx, success, politeSleeps, fetchCalls, run, firstRun,
                   filesAtRunStart>>

\* with open(out_file, "w") as f: json.dump(output_json, f); success += 1
MSave ==
    /\ pc = "fetch" /\ fpc = "done" /\ fresult.ok
    /\ ~parse(fresult.html.dom).raised
    /\ files' = [files EXCEPT ![Slug(Item.url)] =
                    Combined(Item, parse(fresult.html.dom).value[1])]
    /\ success' = success + 1
    /\ outcome' = Append(outcome, "saved")
    /\ pc' = "sleep"
    /\ ScraperDropped
    /\ UNCHANGED <<catalog, idx, failed, politeSleeps, fetchCalls, run, firstRun,
                   filesAtRunStart>>

\* open or json.dump raises (the artifact cannot be written): except Exception,
\* failed += 1.  When open succeeded the file exists, with what was written so far.
MWriteError ==
    /\ pc = "fetch" /\ fpc = "done" /\ fresult.ok
    /\ ~parse(fresult.html.dom).raised
    /\ \E created \in BOOLEAN :
          files' = IF created THEN [files EXCEPT ![Slug(Item.url)] = PartFile] ELSE files
    /\ failed' = failed + 1
    /\ outcome' = Append(outcome, "error")
    /\ pc' = "sleep"
    /\ ScraperDropped
    /\ UNCHANGED <<catalog, idx, success, politeSleeps, fetchCalls, run, firstRun,
                   filesAtRunStart>>

\* time.sleep(0.5) at the end of the loop body
MSleep ==
    /\ pc = "sleep"
    /\ politeSleeps' = politeSleeps + 1
    /\ idx' = idx + 1
    /\ pc' = "loop"
    /\ UNCHANGED <<catalog, files, success, failed, fetchCalls, outcome, run, firstRun,
                   filesAtRunStart>>
    /\ UNCHANGED fetchVars

\* the loop is over: info "Done! success=.. failed=.. total=.."
MDone ==
    /\ pc = "loop" /\ idx > Len(catalog)
    /\ pc' = "done"
    /\ UNCHANGED <<catalog, files, idx, success, failed, politeSleeps, fetchCalls, outcome,
                   run, firstRun, filesAtRunStart>>
    /\ UNCHANGED fetchVars

\* main is run a second time on the same catalog and the same out_dir
MRerun ==
    /\ pc = "done" /\ run = 1
    /\ run' = 2
    /\ firstRun' = [fetchCalls |-> fetchCalls, outcome |-> outcome]
    /\ filesAtRunStart' = files
    /\ pc' = "loop" /\ idx' = 1 /\ success' = 0 /\ failed' = 0 /\ politeSleeps' = 0
    /\ fetchCalls' = 0 /\ outcome' = <<>>
    /\ UNCHANGED <<catalog, files>>
    /\ UNCHANGED fetchVars

(***************************************************************************)
(* PokebaseScraper._fetch_html: the Page Aggregator                        *)
(* A page capture is named by the attempt that loaded it and its page      *)
(* number; the capture of page 1 carries the pagination control.           *)
(***************************************************************************)
B_1of2 == [present |-> TRUE, nodes |-> << <<"1">>, OfTok, <<"2">> >>]
B_1of3 == [present |-> TRUE, nodes |-> << <<"P", "a", "g", "e", " ", "1">>, OfTok, <<"3">> >>]
B_ofX  == [present |-> TRUE, nodes |-> << <<"1">>, OfTok, <<"a", "b", "c">> >>]

ListBars == { NoBar, B_ofX, B_1of2, B_1of3 }

PageHtml(a, i, b) == [att |-> a, page |-> i, bar |-> b]

NoPages == [ok |-> FALSE, sep |-> "", pages |-> <<>>]

\* sep.join(all_pages_html), kept as the separator and the pages it joins
Joined(sep, pgs) == [ok |-> TRUE, sep |-> sep, pages |-> pgs]

ListIdle ==
    /\ lpc = "idle" /\ lattempt = 0 /\ lretries = 0 /\ all_pages_html = <<>>
    /\ max_page = 0 /\ lpage = 0 /\ lresult = NoPages /\ lsnapshot = NoPages
    /\ llog = <<>> /\ lsleeps = 0 /\ lsessions = 0 /\ page_parts = <<>>

\* all_pages_html = [] is executed once, before the attempt loop
ListInit ==
    /\ lpc = "loop" /\ lattempt = 1 /\ lretries \in 0..MaxRetries /\ all_pages_html = <<>>
    /\ max_page = 0 /\ lpage = 0 /\ lresult = NoPages /\ lsnapshot = NoPages
    /\ llog = <<>> /\ lsleeps = 0 /\ lsessions = 0 /\ page_parts = <<>>

LLaunch ==
    /\ lpc = "loop" /\ lattempt <= lretries
    /\ lsessions' = lsessions + 1
    /\ lpc' = "page1"
    /\ UNCHANGED <<page_parts, lattempt, lretries, all_pages_html, max_page, lpage, lresult, lsnapshot,
                   llog, lsleeps>>

\* an exception while page i is loaded leaves the with block, which closes the browser
LFail(i) ==
    /\ lsessions' = lsessions - 1
    /\ llog' = Append(llog, [att |-> lattempt, failedAt |-> i])
    /\ lpc' = "except"
    /\ UNCHANGED <<page_parts, lattempt, lretries, all_pages_html, max_page, lpage, lresult, lsnapshot,
                   lsleeps>>

\* launch or page.goto(self.url) raises
LPage1Fails == lpc = "page1" /\ LFail(1)

\* html = page.content(); max_page = self._detect_total_pages(soup);
\* all_pages_html.append(html)
LPage1 ==
    /\ lpc = "page1"
    /\ \E b \in ListBars :
          /\ max_page' = DetectTotalPages(b).value
          /\ all_pages_html' = Append(all_pages_html, PageHtml(lattempt, 1, b))
    /\ lpage' = 2
    /\ lpc' = "pages"
    /\ UNCHANGED <<page_parts, lattempt, lretries, lresult, lsnapshot, llog, lsleeps, lsessions>>

\* for i in range(2, max_page + 1): goto ?page=i; all_pages_html.append(html_i)
LNextPage ==
    /\ lpc = "pages" /\ lpage <= max_page
    /\ all_pages_html' = Append(all_pages_html, PageHtml(lattempt, lpage, NoBar))
    /\ lpage' = lpage + 1
    /\ UNCHANGED <<page_parts, lpc, lattempt, lretries, max_page, lresult, lsnapshot, llog, lsleeps,
                   lsessions>>

LNextPageFails == lpc = "pages" /\ lpage <= max_page /\ LFail(lpage)

\* page.close(); context.close(); browser.close()
LClose ==
    /\ lpc = "pages" /\ lpage > max_page
    /\ lsessions' = lsessions - 1
    /\ lpc' = "save"
    /\ UNCHANGED <<page_parts, lattempt, lretries, all_pages_html, max_page, lpage, lresult, lsnapshot,
                   llog, lsleeps>>

\* save_html("\n<!--PAGE_BREAK-->\n".join(all_pages_html), path);
\* return BeautifulSoup("\n".join(all_pages_html), "lxml")
LReturn ==
    /\ lpc = "save"
    /\ lsnapshot' = save_html(Joined("\n<!--PAGE_BREAK-->\n", all_pages_html), lsnapshot)
    /\ lresult' = Joined("\n", all_pages_html)
    /\ lpc' = "done"
    /\ UNCHANGED <<page_parts, lattempt, lretries, all_pages_html, max_page, lpage, llog, lsleeps,
                   lsessions>>

\* save_html raises
LSaveFails ==
    /\ lpc = "save"
    /\ llog' = Append(llog, [att |-> lattempt, failedAt |-> lpage])
    /\ lpc' = "except"
    /\ UNCHANGED <<page_parts, lattempt, lretries, all_pages_html, max_page, lpage, lresult, lsnapshot,
                   lsleeps, lsessions>>

\* except Exception: logger.error; time.sleep(delay)
LExcept ==
    /\ lpc = "except"
    /\ lsleeps' = lsleeps + 1
    /\ lattempt' = lattempt + 1
    /\ lpc' = "loop"
    /\ UNCHANGED <<page_parts, lretries, all_pages_html, max_page, lpage, lresult, lsnapshot, llog,
                   lsessions>>

\* "All retries failed", return None
LExhausted ==
    /\ lpc = "loop" /\ lattempt > lretries
    /\ lresult' = NoPages
    /\ lpc' = "done"
    /\ UNCHANGED <<page_parts, lattempt, lretries, all_pages_html, max_page, lpage, lsnapshot, llog,
                   lsleeps, lsessions>>

\* sep.join(pages) as the text it is: the pages with the separator between them
RECURSIVE JoinedText(_, _)
JoinedText(sep, pgs) ==
    IF pgs = <<>> THEN <<>>
    ELSE IF Len(pgs) = 1 THEN << [sep |-> "", page |-> <<pgs[1]>>] >>
    ELSE << [sep |-> "", page |-> <<pgs[1]>>], [sep |-> sep, page |-> <<>>] >>
         \o JoinedText(sep, Tail(pgs))

\* the separator strings of _fetch_html in which the marker occurs
HasMarker(sep) == sep = "\n<!--PAGE_BREAK-->\n"

\* text.split("<!--PAGE_BREAK-->"): a new part begins after each piece of text
\* that holds the marker; a text without marker is one part
RECURSIVE SplitPageBreak(_, _)
SplitPageBreak(text, part) ==
    IF text = <<>> THEN <<part>>
    ELSE IF HasMarker(Head(text).sep) THEN <<part>> \o SplitPageBreak(Tail(text), <<>>)
    ELSE SplitPageBreak(Tail(text), part \o Head(text).page)

\* PokebaseScraper.parse(soup): page_parts = soup.decode().split("<!--PAGE_BREAK-->")
LParse ==
    /\ lpc = "done" /\ lresult.ok
    /\ page_parts' = SplitPageBreak(JoinedText(lresult.sep, lresult.pages), <<>>)
    /\ lpc' = "parsed"
    /\ UNCHANGED <<lattempt, lretries, all_pages_html, max_page, lpage, lresult, lsnapshot,
                   llog, lsleeps, lsessions>>

(***************************************************************************)
(* Specifications                                                          *)
(***************************************************************************)
CleanNext ==
    \/ CleanOnce /\ UNCHANGED <<pagesVars, parseVars, fetchVars, mainVars, listVars>>
    \/ CleanTwice /\ UNCHANGED <<pagesVars, parseVars, fetchVars, mainVars, listVars>>

CleanSpecInit == CleanInit /\ PagesIdle /\ ParseIdle /\ FetchIdle /\ MainIdle /\ ListIdle

CleanSpec == CleanSpecInit /\ [][CleanNext]_vars

PagesNext == Detect /\ UNCHANGED <<cleanVars, parseVars, fetchVars, mainVars, listVars>>

PagesSpecInit == CleanIdle /\ PagesInit /\ ParseIdle /\ FetchIdle /\ MainIdle /\ ListIdle

PagesSpec == PagesSpecInit /\ [][PagesNext]_vars

ParseNext == DoParse /\ UNCHANGED <<cleanVars, pagesVars, fetchVars, mainVars, listVars>>

ParseSpecInit == CleanIdle /\ PagesIdle /\ ParseInit /\ FetchIdle /\ MainIdle /\ ListIdle

ParseSpec == ParseSpecInit /\ [][ParseNext]_vars

notFetch == <<cleanVars, pagesVars, parseVars, mainVars, listVars>>

FetchNext ==
    \/ DLaunch /\ UNCHANGED notFetch
    \/ DLaunchFails /\ UNCHANGED notFetch
    \/ DNavFails /\ UNCHANGED notFetch
    \/ DCapture /\ UNCHANGED notFetch
    \/ DShort /\ UNCHANGED notFetch
    \/ DReturn /\ UNCHANGED notFetch
    \/ DSaveFails /\ UNCHANGED notFetch
    \/ DExcept /\ UNCHANGED notFetch
    \/ DExhausted /\ UNCHANGED notFetch

FetchSpecInit == CleanIdle /\ PagesIdle /\ ParseIdle /\ FetchInit /\ MainIdle /\ ListIdle

FetchSpec == FetchSpecInit /\ [][FetchNext]_vars

notMain == <<cleanVars, pagesVars, parseVars, listVars>>

MainNext ==
    \/ MMissingUrl /\ UNCHANGED notMain
    \/ MSkipExisting /\ UNCHANGED notMain
    \/ MStartFetch /\ UNCHANGED notMain
    \/ pc = "fetch" /\ DLaunch /\ UNCHANGED notFetch
    \/ pc = "fetch" /\ DLaunchFails /\ UNCHANGED notFetch
    \/ pc = "fetch" /\ DNavFails /\ UNCHANGED notFetch
    \/ pc = "fetch" /\ DCapture /\ UNCHANGED notFetch
    \/ pc = "fetch" /\ DShort /\ UNCHANGED notFetch
    \/ pc = "fetch" /\ DReturn /\ UNCHANGED notFetch
    \/ pc = "fetch" /\ DSaveFails /\ UNCHANGED notFetch
    \/ pc = "fetch" /\ DExcept /\ UNCHANGED notFetch
    \/ pc = "fetch" /\ DExhausted /\ UNCHANGED notFetch
    \/ MFetchFailed /\ UNCHANGED notMain
    \/ MParseError /\ UNCHANGED notMain
    \/ MSave /\ UNCHANGED notMain
    \/ MWriteError /\ UNCHANGED notMain
    \/ MSleep /\ UNCHANGED notMain
    \/ MDone /\ UNCHANGED notMain
    \/ MRerun /\ UNCHANGED notMain

notList == <<cleanVars, pagesVars, parseVars, fetchVars, mainVars>>

ListNext ==
    \/ LLaunch /\ UNCHANGED notList
    \/ LPage1Fails /\ UNCHANGED notList
    \/ LPage1 /\ UNCHANGED notList
    \/ LNextPage /\ UNCHANGED notList
    \/ LNextPageFails /\ UNCHANGED notList
    \/ LClose /\ UNCHANGED notList
    \/ LReturn /\ UNCHANGED notList
    \/ LSaveFails /\ UNCHANGED notList
    \/ LExcept /\ UNCHANGED notList
    \/ LExhausted /\ UNCHANGED notList
    \/ LParse /\ UNCHANGED notList

ListSpecInit == CleanIdle /\ PagesIdle /\ ParseIdle /\ FetchIdle /\ MainIdle /\ ListInit

ListSpec == ListSpecInit /\ [][ListNext]_vars

\* main, lines 41-73, run after the listing was crawled: the catalog file is
\* loaded and out_dir is looked at; the listing scraper is not used again
MLoad ==
    /\ lpc \in { "done", "parsed" } /\ pc = "idle"
    /\ catalog' \in Catalogs
    /\ files' \in { [sl \in Slugs |-> IF sl \in old THEN OldFile ELSE NoFile] :
                      old \in SUBSET { Slug(URL_a) } }
    /\ filesAtRunStart' = files'
    /\ pc' = "loop" /\ idx' = 1 /\ run' = 1
    /\ UNCHANGED <<success, failed, politeSleeps, fetchCalls, outcome, firstRun>>
    /\ lpc' = "handed" /\ lattempt' = 0 /\ lretries' = 0 /\ all_pages_html' = <<>>
    /\ max_page' = 0 /\ lpage' = 0 /\ lresult' = NoPages /\ lsnapshot' = NoPages
    /\ llog' = <<>> /\ lsleeps' = 0 /\ page_parts' = <<>>
    /\ UNCHANGED lsessions
    /\ UNCHANGED <<cleanVars, pagesVars, parseVars, fetchVars>>

\* the listing is crawled, then the orchestrator runs over the catalog
CrawlNext == ListNext \/ MLoad \/ MainNext

CrawlSpecInit == CleanIdle /\ PagesIdle /\ ParseIdle /\ FetchIdle /\ MainIdle /\ ListInit

CrawlSpec == CrawlSpecInit /\ [][CrawlNext]_vars

\* the orchestrator is the program's entry point
Init == CleanIdle /\ PagesIdle /\ ParseIdle /\ FetchIdle /\ MainInit /\ ListIdle

Next == MainNext

Spec == Init /\ [][Next]_vars

(***************************************************************************)
(* Properties of the Fetch Engine (FetchSpec)                              *)
(***************************************************************************)
IsShortCapture(e) == e.ev = "capture" /\ e.len < MinHtmlLen

\* the attempts that were begun, counted from the log
AttemptsMade == { flog[i].att : i \in { j \in DOMAIN flog : flog[j].ev # "all_failed" } }

AllCapturesShort ==
    \A k \in 1..retries : \E i \in DOMAIN flog : flog[i].att = k /\ IsShortCapture(flog[i])

\* C1: with retries >= 1, when _fetch_html has returned: a short or empty capture of
\* attempt k < retries is followed by attempt k + 1 and is not what is returned; when
\* every attempt captured a short document exactly `retries` attempts were made and
\* None is returned; a returned document is the capture, of length >= 200, of the
\* last attempt made, and nothing happens after it.
C1_ShortCapturesRetried ==
    (fpc = "done" /\ retries >= 1) =>
        /\ \A i \in DOMAIN flog :
              IsShortCapture(flog[i]) =>
                  /\ i < Len(flog) /\ flog[i + 1].ev = "short"
                  /\ flog[i].att < retries =>
                        \E j \in DOMAIN flog :
                            j > i /\ flog[j].att = flog[i].att + 1
                                  /\ flog[j].ev \in { "launch", "error" }
        /\ AllCapturesShort => ~fresult.ok /\ AttemptsMade = 1..retries
        /\ fresult.ok =>
              /\ Len(flog) >= 2
              /\ flog[Len(flog)].ev = "return"
              /\ flog[Len(flog) - 1].ev = "capture"
              /\ flog[Len(flog) - 1].len >= MinHtmlLen
              /\ flog[Len(flog) - 1].len = fresult.html.len
              /\ \A i \in DOMAIN flog : flog[i].att <= flog[Len(flog)].att
        /\ ~fresult.ok => fresult.html = NoHtml /\ flog[Len(flog)].ev = "all_failed"

\* every one of at least two attempts captured a short document, and None came back
C1_Witness ==
    /\ fpc = "done" /\ retries >= 2 /\ AllCapturesShort /\ ~fresult.ok
    /\ \E i \in DOMAIN flog : flog[i].ev = "capture" /\ flog[i].len = MinHtmlLen - 1

(***************************************************************************)
(* Properties of the Run Orchestrator (Spec)                               *)
(***************************************************************************)
Count(tags) == Cardinality({ i \in DOMAIN outcome : outcome[i] \in tags })

HasUrl(i) == catalog[i].url # NoneStr /\ catalog[i].url # <<>>

\* the final non-empty path segment of a URL
FinalSegment(u) ==
    LET parts == SplitOn(u, "/")
        ne    == { i \in DOMAIN parts : parts[i] # <<>> }
    IN  parts[CHOOSE i \in ne : \A j \in ne : j <= i]

ArtifactAt(fs, i) == fs[FinalSegment(catalog[i].url)]

AbsentAtStart ==
    { i \in DOMAIN catalog : HasUrl(i) /\ ArtifactAt(filesAtRunStart, i).kind = "none" }

C3_FailuresCountedRunContinues ==
    /\ failed = Count({ "missing", "fetch_failed", "error" })
    /\ success = Count({ "saved" })
    /\ Len(outcome) = (IF pc = "sleep" THEN idx ELSE idx - 1)
    /\ idx <= Len(catalog) + 1
    /\ pc = "done" => Len(outcome) = Len(catalog)
    /\ \A i \in DOMAIN outcome : outcome[i] = "missing" <=> ~HasUrl(i)
    /\ fetchCalls = Count({ "fetch_failed", "error", "saved" })
                    + (IF pc = "fetch" THEN 1 ELSE 0)

\* an entry that raised after its fetch, then an entry without URL: both are counted
\* as failed and the run went on to the end
C3_Witness ==
    /\ pc = "done" /\ run = 1 /\ Len(catalog) = 2
    /\ outcome[1] = "error" /\ outcome[2] = "missing"
    /\ failed = 2 /\ success = 0 /\ fetchCalls = 1

C6_DelayAfterEveryEntry ==
    (pc = "loop" /\ idx <= Len(catalog)) => politeSleeps = idx - 1

(***************************************************************************)
(* Properties of parse (ParseSpec)                                         *)
(***************************************************************************)
\* C4 as stated: parse returns a record for every document; a moves heading
\* without container, or a move anchor without button, leaves an empty list
C4_ParseAlwaysReturns ==
    ppc = "out" =>
        /\ ~detail.raised
        /\ (dom.fast.h2 /\ ~dom.fast.div) => detail.value[1].fast_moves = <<>>

VariantRules ==
    << [prefix |-> P_mega, variant |-> "mega"], [prefix |-> P_gigantamax, variant |-> "gmax"],
       [prefix |-> P_dynamax, variant |-> "dmax"], [prefix |-> P_shadow, variant |-> "shadow"] >>

MatchingRules(name) ==
    { r \in DOMAIN VariantRules : StartsWith(Lower(name), VariantRules[r].prefix) }

C7_CleanIdempotent ==
    cpc = "twice" =>
        /\ cout2 = cout1
        /\ (cin # NoneStr /\ cin # <<>> /\ FindFrom(cin, "?", 1) = 0) => cout1 = cin
        /\ (cin # NoneStr /\ FindFrom(cin, "?", 1) > 0) =>
              cout1 = SubSeq(cin, 1, FindFrom(cin, "?", 1) - 1)

(***************************************************************************)
(* Properties of _detect_total_pages (PagesSpec)                           *)
(***************************************************************************)
\* the total the pagination text announces, 1 when it announces none
AnnouncedPages(b) ==
    LET toks == SplitWS(GetTextSp(b.nodes))
        ofs  == { i \in DOMAIN toks : toks[i] = OfTok }
        k    == CHOOSE i \in ofs : \A j \in ofs : i <= j
    IN  IF b.present /\ ofs # {} /\ k < Len(toks) /\ IntOk(toks[k + 1])
        THEN IntVal(toks[k + 1])
        ELSE 1

\* C8: _detect_total_pages does not raise; it returns the integer after the first
\* "of" token when there is one, and 1 in every other case.
C8_TotalPagesOrOne ==
    dpc = "out" => ~pages.raised /\ pages.value = AnnouncedPages(bar)

\* "of" is the last token of the pagination text and the result is 1
C8_Witness ==
    /\ dpc = "out" /\ bar.present /\ pages.value = 1
    /\ LET toks == SplitWS(GetTextSp(bar.nodes))
       IN  Len(toks) = 3 /\ toks[3] = OfTok /\ toks[1] # OfTok /\ toks[2] # OfTok

(***************************************************************************)
(* Properties of the Page Aggregator (ListSpec)                            *)
(***************************************************************************)
\* the pages 1..n of attempt a, in order
PagesOfAttempt(pgs, a, n) ==
    /\ Len(pgs) = n
    /\ \A i \in 1..n : pgs[i].att = a /\ pgs[i].page = i

\* C10 as stated: what is returned and what is saved are the pages 1..N loaded by
\* the attempt that succeeded, and nothing else
C10_OnlyPagesOfSuccessfulAttempt ==
    (lpc = "done" /\ lresult.ok) =>
        LET n == IF max_page > 1 THEN max_page ELSE 1
        IN  /\ PagesOfAttempt(lresult.pages, lattempt, n)
            /\ PagesOfAttempt(lsnapshot.pages, lattempt, n)

\* C11 as stated: the document the Page Aggregator returns is split by the
\* Catalog Extractor into as many parts as it has pages, part i holding page i
C11_SplitYieldsOnePartPerPage ==
    lpc = "parsed" =>
        /\ Len(page_parts) = Len(lresult.pages)
        /\ \A i \in DOMAIN page_parts : page_parts[i] = <<lresult.pages[i]>>

\* the captures of the invocation, in the order they were taken
CaptureEvents == { i \in DOMAIN flog : flog[i].ev = "capture" }

LastCapture == flog[CHOOSE i \in CaptureEvents : \A j \in CaptureEvents : j <= i]

\* C12 as stated: when _fetch_html has returned after at least one attempt, the
\* snapshot is the returned document on success, and the capture of the last
\* attempt that captured one when every attempt failed
C12_SnapshotOfLastCapture ==
    (fpc = "done" /\ AttemptsMade # {}) =>
        /\ fresult.ok => snapshot = fresult.html
        /\ (~fresult.ok /\ CaptureEvents # {}) => snapshot.len = LastCapture.len

\* C14 as stated: a failed attempt, by exception or by short capture, that is
\* followed by another attempt is followed first by the inter-attempt sleep
C14_DelayBetweenAttempts ==
    \A i \in DOMAIN flog :
        (/\ flog[i].ev \in { "short", "error" }
         /\ \E j \in DOMAIN flog : /\ j > i /\ flog[j].att = flog[i].att + 1
                                   /\ flog[j].ev \in { "launch", "error" })
            => flog[i + 1].ev = "sleep"

(***************************************************************************)
(* Properties of the browser sessions (CrawlSpec)                          *)
(***************************************************************************)
\* C13: at most one browser session is open at any time; a session is open only
\* while an attempt is loading its pages, so none is open when an attempt ends (by
\* return, short capture or exception), when the next attempt starts or when the
\* orchestrator is between entries; every capture comes from a session launched by
\* its own attempt.
C13_OneSessionPerAttempt ==
    /\ sessions \in 0..1 /\ lsessions \in 0..1 /\ sessions + lsessions <= 1
    /\ sessions = 1 => fpc = "page" /\ pc = "fetch"
    /\ lsessions = 1 => lpc \in { "page1", "pages" }
    /\ \A i \in DOMAIN flog :
          flog[i].ev = "capture" =>
              i > 1 /\ flog[i - 1].ev = "launch" /\ flog[i - 1].att = flog[i].att

\* the listing was crawled; in the second entry of the catalog the first attempt
\* ended by an exception after its launch and the second attempt has its session
C13_Witness ==
    /\ lpc = "handed" /\ pc = "fetch" /\ idx = 2 /\ fpc = "page" /\ attempt = 2
    /\ sessions = 1
    /\ Len(flog) = 4 /\ flog[1].ev = "launch" /\ flog[2].ev = "error"
    /\ flog[3].ev = "sleep" /\ flog[4].ev = "launch"

(***************************************************************************)
(* The output files as resume marker (Spec)                                *)
(***************************************************************************)
\* C15 as stated: in every state of a run, an artifact exists only if it existed
\* when the run started or an entry of its slug was counted as success (so an entry
\* counted as failed leaves none and is fetched again by a later run), and an
\* artifact that existed when the run started is never rewritten
C15_ArtifactOnlyIfSuccess ==
    \A sl \in DOMAIN files :
        /\ files[sl].kind # "none" =>
              \/ filesAtRunStart[sl].kind # "none"
              \/ \E i \in DOMAIN outcome :
                    outcome[i] = "saved" /\ FinalSegment(catalog[i].url) = sl
        /\ filesAtRunStart[sl].kind # "none" => files[sl] = filesAtRunStart[sl]

====
